---- MODULE Spec2Model ----
\* FINORA: the single-page App component (src/src/App.tsx) and the two
\* provider calls of the gemini service (src/unnamed/part_000), as a state
\* machine.  One action per event handler or promise continuation.
EXTENDS Integers, Sequences, FiniteSets, TLC

\* ---------------------------------------------------------------- bounds
\* Longest chat transcript explored (sends are cut off beyond it).
MaxTurns == 3

\* ------------------------------------------------------- enumerated types
\* Language enum (types.ts), the members the model explores.
Languages == {"English", "Hindi"}

\* RiskTolerance enum (types.ts), the members the model explores.
RiskTolerances == {"Low", "Medium", "High"}

\* Values typed into the age field of the profile form.
Ages == {30, 45}

\* UI steps of the App component.
Steps == {"welcome", "profile", "loading", "dashboard"}

\* ------------------------------------------------------------ chat texts
\* A text is a sequence of characters.  " " is the whitespace character.
InputTexts ==
  { <<>>, <<" ">>, <<"h", "i">>, <<" ", "h", "i", " ">> }

\* Text a successful chat call can carry (result.text); <<>> is "".
ReplyTexts == { <<>>, <<"o", "k">> }

\* The fixed sentence of handleSendMessage, kept as one unit of text.
FallbackText == << "I am sorry, I could not process that." >>

IsSpace(c) == c = " "

RECURSIVE TrimStart(_)
TrimStart(s) ==
  IF s = <<>> THEN <<>>
  ELSE IF IsSpace(Head(s)) THEN TrimStart(Tail(s)) ELSE s

RECURSIVE TrimEnd(_)
TrimEnd(s) ==
  IF s = <<>> THEN <<>>
  ELSE IF IsSpace(s[Len(s)]) THEN TrimEnd(SubSeq(s, 1, Len(s) - 1)) ELSE s

\* String.prototype.trim
Trim(s) == TrimEnd(TrimStart(s))

\* JavaScript truthiness of a string
Truthy(s) == s # <<>>

UserTurn(text) == [role |-> "user", parts |-> << [text |-> text] >>]

ModelTurn(text) == [role |-> "model", parts |-> << [text |-> text] >>]

\* ------------------------------------------------------------------ JSON
\* A JSON value: t is its type; n, s, a, o carry a number, a string, an
\* array (sequence of values) or an object (function from keys to values).
NoMembers == [k \in {} |-> 0]

JNull == [t |-> "null", n |-> 0, s |-> "", a |-> <<>>, o |-> <<>>]

JNum(x) == [t |-> "num", n |-> x, s |-> "", a |-> <<>>, o |-> <<>>]

JStr(x) == [t |-> "str", n |-> 0, s |-> x, a |-> <<>>, o |-> <<>>]

JArr(x) == [t |-> "arr", n |-> 0, s |-> "", a |-> x, o |-> <<>>]

JObj(x) == [t |-> "obj", n |-> 0, s |-> "", a |-> <<>>, o |-> x]

\* The value of JSON.parse("{}")
EmptyObject == JObj(NoMembers)

\* A JSON text is a sequence of lexemes.
Tok(k) == [k |-> k, s |-> "", n |-> 0]

TStr(x) == [k |-> "str", s |-> x, n |-> 0]

TNum(x) == [k |-> "num", s |-> "", n |-> x]

\* The result of a failed parse step (JSON.parse throws SyntaxError).
ParseFail == [ok |-> FALSE, v |-> JNull, next |-> 0]

ParseOk(v, next) == [ok |-> TRUE, v |-> v, next |-> next]

RECURSIVE ParseValue(_, _)
RECURSIVE ParseElements(_, _, _)
RECURSIVE ParseMembers(_, _, _)

\* elements after "[" (or after a ","); acc holds the elements read so far
ParseElements(toks, i, acc) ==
  LET e == ParseValue(toks, i) IN
  IF ~e.ok \/ e.next > Len(toks) THEN ParseFail
  ELSE IF toks[e.next].k = "]" THEN ParseOk(JArr(Append(acc, e.v)), e.next + 1)
  ELSE IF toks[e.next].k = "," THEN ParseElements(toks, e.next + 1, Append(acc, e.v))
  ELSE ParseFail

\* members after "{" (or after a ","); a repeated key keeps its last value
ParseMembers(toks, i, acc) ==
  IF i + 1 > Len(toks) \/ toks[i].k # "str" \/ toks[i + 1].k # ":" THEN ParseFail
  ELSE
    LET e == ParseValue(toks, i + 2)
        obj == (toks[i].s :> e.v) @@ acc
    IN
    IF ~e.ok \/ e.next > Len(toks) THEN ParseFail
    ELSE IF toks[e.next].k = "}" THEN ParseOk(JObj(obj), e.next + 1)
    ELSE IF toks[e.next].k = "," THEN ParseMembers(toks, e.next + 1, obj)
    ELSE ParseFail

ParseValue(toks, i) ==
  IF i > Len(toks) THEN ParseFail
  ELSE
    LET tk == toks[i] IN
    CASE tk.k = "num" -> ParseOk(JNum(tk.n), i + 1)
      [] tk.k = "str" -> ParseOk(JStr(tk.s), i + 1)
      [] tk.k = "null" -> ParseOk(JNull, i + 1)
      [] tk.k = "[" ->
           IF i + 1 <= Len(toks) /\ toks[i + 1].k = "]"
           THEN ParseOk(JArr(<<>>), i + 2)
           ELSE ParseElements(toks, i + 1, <<>>)
      [] tk.k = "{" ->
           IF i + 1 <= Len(toks) /\ toks[i + 1].k = "}"
           THEN ParseOk(EmptyObject, i + 2)
           ELSE ParseMembers(toks, i + 1, NoMembers)
      [] OTHER -> ParseFail

\* JSON.parse: ok = FALSE stands for the SyntaxError it throws
JSONParse(text) ==
  LET r == ParseValue(text, 1) IN
  IF r.ok /\ r.next = Len(text) + 1
  THEN [ok |-> TRUE, v |-> r.v]
  ELSE [ok |-> FALSE, v |-> JNull]

RECURSIVE JSONStringify(_)
RECURSIVE StringifyElements(_)
RECURSIVE StringifyMembers(_, _)

StringifyElements(a) ==
  IF a = <<>> THEN <<>>
  ELSE JSONStringify(Head(a))
       \o (IF Len(a) > 1 THEN <<Tok(",")>> ELSE <<>>)
       \o StringifyElements(Tail(a))

StringifyMembers(o, keys) ==
  IF keys = {} THEN <<>>
  ELSE
    LET k == CHOOSE x \in keys : TRUE IN
    <<TStr(k), Tok(":")>> \o JSONStringify(o[k])
    \o (IF keys # {k} THEN <<Tok(",")>> ELSE <<>>)
    \o StringifyMembers(o, keys \ {k})

\* The serialization the provider applies to the object it returns.
JSONStringify(v) ==
  CASE v.t = "num" -> <<TNum(v.n)>>
    [] v.t = "str" -> <<TStr(v.s)>>
    [] v.t = "null" -> <<Tok("null")>>
    [] v.t = "arr" -> <<Tok("[")>> \o StringifyElements(v.a) \o <<Tok("]")>>
    [] v.t = "obj" -> <<Tok("{")>> \o StringifyMembers(v.o, DOMAIN v.o) \o <<Tok("}")>>

\* JavaScript truthiness of a parsed value
JTruthy(v) ==
  CASE v.t = "null" -> FALSE
    [] v.t = "num" -> v.n # 0
    [] v.t = "str" -> v.s # ""
    [] OTHER -> TRUE

\* obj[key] is neither undefined nor null
HasMember(v, key) ==
  v.t = "obj" /\ key \in DOMAIN v.o /\ v.o[key].t # "null"

\* ------------------------------------------------- provider (Gemini) side
\* What a generateContent / sendMessage call can come back with: an
\* exception, or a response whose text may be absent.
Thrown == [kind |-> "throw", hasText |-> FALSE, text |-> <<>>]

NoText == [kind |-> "ok", hasText |-> FALSE, text |-> <<>>]

WithText(t) == [kind |-> "ok", hasText |-> TRUE, text |-> t]

\* Before any call of that kind has come back.
NoResponse == [kind |-> "none", hasText |-> FALSE, text |-> <<>>]

\* Keys of FinancialAdviceSchema and of its budgetPlan.
AdviceKeys ==
  { "healthScore", "recommendedMonthlySavings", "suggestedSIPAmount",
    "emergencyFundTarget", "budgetPlan", "investmentSuggestions",
    "retirementReadiness", "riskWarnings", "fraudAwarenessTips",
    "keyAdvice", "nextBestAction" }

BudgetKeys == { "necessities", "wants", "savings" }

NumberKeys ==
  { "healthScore", "recommendedMonthlySavings", "suggestedSIPAmount",
    "emergencyFundTarget" }

StringKeys == { "retirementReadiness", "keyAdvice", "nextBestAction" }

ListKeys == { "investmentSuggestions", "riskWarnings", "fraudAwarenessTips" }

\* v has the shape FinancialAdviceSchema describes (all keys required).
SchemaConformant(v) ==
  /\ v.t = "obj"
  /\ DOMAIN v.o = AdviceKeys
  /\ \A k \in NumberKeys : v.o[k].t = "num"
  /\ \A k \in StringKeys : v.o[k].t = "str"
  /\ \A k \in ListKeys :
       v.o[k].t = "arr" /\ \A j \in 1..Len(v.o[k].a) : v.o[k].a[j].t = "str"
  /\ v.o["budgetPlan"].t = "obj"
  /\ DOMAIN v.o["budgetPlan"].o = BudgetKeys
  /\ \A k \in BudgetKeys : v.o["budgetPlan"].o[k].t = "num"

\* The example of the specification: healthScore 75, budget 15000/9000/6000.
SampleAdvice ==
  JObj([ healthScore |-> JNum(75),
         recommendedMonthlySavings |-> JNum(6000),
         suggestedSIPAmount |-> JNum(5000),
         emergencyFundTarget |-> JNum(180000),
         budgetPlan |-> JObj([ necessities |-> JNum(15000),
                               wants |-> JNum(9000),
                               savings |-> JNum(6000) ]),
         investmentSuggestions |-> JArr(<<JStr("PPF"), JStr("Index fund SIP")>>),
         retirementReadiness |-> JStr("on track"),
         riskWarnings |-> JArr(<<>>),
         fraudAwarenessTips |-> JArr(<<JStr("Never share a UPI PIN")>>),
         keyAdvice |-> JStr("Automate savings"),
         nextBestAction |-> JStr("Start a SIP") ])

\* Conformant to the schema but outside the intended ranges: a health score
\* above 100 and a budget that does not add up to the income.
OddAdvice ==
  JObj([ healthScore |-> JNum(120),
         recommendedMonthlySavings |-> JNum(0),
         suggestedSIPAmount |-> JNum(1),
         emergencyFundTarget |-> JNum(0),
         budgetPlan |-> JObj([ necessities |-> JNum(1),
                               wants |-> JNum(1),
                               savings |-> JNum(1) ]),
         investmentSuggestions |-> JArr(<<>>),
         retirementReadiness |-> JStr(""),
         riskWarnings |-> JArr(<<JStr("High debt"), JStr("No insurance")>>),
         fraudAwarenessTips |-> JArr(<<>>),
         keyAdvice |-> JStr(""),
         nextBestAction |-> JStr("Repay loans") ])

ConformantAdvice == { SampleAdvice, OddAdvice }

\* An object the provider sends despite the schema: riskWarnings missing.
DriftedAdvice ==
  JObj([ k \in AdviceKeys \ {"riskWarnings"} |-> SampleAdvice.o[k] ])

\* Texts that are not JSON: free prose, and an object cut short.
UnparsableTexts ==
  { << Tok("Sorry") >>,
    << Tok("{"), TStr("healthScore"), Tok(":"), TNum(75) >> }

\* Response texts of the advice call.
AdviceTexts ==
  { <<>>, << Tok("null") >>,
    JSONStringify(DriftedAdvice) }
  \cup { JSONStringify(v) : v \in ConformantAdvice }
  \cup UnparsableTexts

AdviceResponses == { Thrown, NoText } \cup { WithText(t) : t \in AdviceTexts }

ChatResponses == { Thrown, NoText } \cup { WithText(t) : t \in ReplyTexts }

\* FinancialAdviceSchema with a required key left out (mutant used for C11)
FinancialAdviceSchemaShortRequired ==
  [ type |-> "OBJECT",
    properties |->
      [ healthScore |-> [type |-> "NUMBER"],
        recommendedMonthlySavings |-> [type |-> "NUMBER"],
        suggestedSIPAmount |-> [type |-> "NUMBER"],
        emergencyFundTarget |-> [type |-> "NUMBER"],
        budgetPlan |->
          [ type |-> "OBJECT",
            properties |-> [ necessities |-> [type |-> "NUMBER"],
                             wants |-> [type |-> "NUMBER"],
                             savings |-> [type |-> "NUMBER"] ],
            required |-> << "necessities", "wants", "savings" >> ],
        investmentSuggestions |-> [type |-> "ARRAY", items |-> "STRING"],
        retirementReadiness |-> [type |-> "STRING"],
        riskWarnings |-> [type |-> "ARRAY", items |-> "STRING"],
        fraudAwarenessTips |-> [type |-> "ARRAY", items |-> "STRING"],
        keyAdvice |-> [type |-> "STRING"],
        nextBestAction |-> [type |-> "STRING"] ],
    required |->
      << "healthScore", "recommendedMonthlySavings", "suggestedSIPAmount",
         "emergencyFundTarget", "budgetPlan", "investmentSuggestions",
         "retirementReadiness", "riskWarnings", "fraudAwarenessTips",
         "keyAdvice" >> ]

\* The FinancialAdviceSchema constant of types.ts, key by key.
FinancialAdviceSchema ==
  [ type |-> "OBJECT",
    properties |->
      [ healthScore |-> [type |-> "NUMBER"],
        recommendedMonthlySavings |-> [type |-> "NUMBER"],
        suggestedSIPAmount |-> [type |-> "NUMBER"],
        emergencyFundTarget |-> [type |-> "NUMBER"],
        budgetPlan |->
          [ type |-> "OBJECT",
            properties |-> [ necessities |-> [type |-> "NUMBER"],
                             wants |-> [type |-> "NUMBER"],
                             savings |-> [type |-> "NUMBER"] ],
            required |-> << "necessities", "wants", "savings" >> ],
        investmentSuggestions |-> [type |-> "ARRAY", items |-> "STRING"],
        retirementReadiness |-> [type |-> "STRING"],
        riskWarnings |-> [type |-> "ARRAY", items |-> "STRING"],
        fraudAwarenessTips |-> [type |-> "ARRAY", items |-> "STRING"],
        keyAdvice |-> [type |-> "STRING"],
        nextBestAction |-> [type |-> "STRING"] ],
    required |->
      << "healthScore", "recommendedMonthlySavings", "suggestedSIPAmount",
         "emergencyFundTarget", "budgetPlan", "investmentSuggestions",
         "retirementReadiness", "riskWarnings", "fraudAwarenessTips",
         "keyAdvice", "nextBestAction" >> ]

\* ----------------------------------------------------- request texts
\* A request text is a sequence of pieces: fixed fragments of the template
\* and the interpolated values.  A symbol is a piece named by its code
\* point: the rupee sign of the template, and the emoji a user can type.
Rupee == "U+20B9"

Emojis == { "U+1F3E0", "U+1F4B0" }

IsDecorative(piece) == piece \in Emojis

Contains(text, piece) == \E j \in 1..Len(text) : text[j] = piece

\* Values of the goals textarea: the initial text, and two texts with emoji.
GoalTexts ==
  { << "Buy a house in 10 years, save for children education" >>,
    << "Dream home ", "U+1F3E0" >>,
    << "U+1F4B0", " retire early" >> }

\* The prompt template of getFinancialAdvice
AdvicePrompt(profile) ==
  << "Analyze the following financial profile for an Indian user and provide structured advice in ",
     profile.language, ".",
     "Use Indian currency (INR) and financial practices (like SIP, PPF, FD, Gold).",
     "User Profile:",
     "- Age: ", ToString(profile.age),
     "- Monthly Income: ", Rupee, ToString(profile.monthlyIncome),
     "- Monthly Expenses: ", Rupee, ToString(profile.monthlyExpenses),
     "- Current Savings: ", Rupee, ToString(profile.currentSavings),
     "- Existing Investments: ", Rupee, ToString(profile.existingInvestments),
     "- Debt/Loans: ", Rupee, ToString(profile.debt),
     "- Dependents: ", ToString(profile.dependents),
     "- Goals: " >>
  \o profile.financialGoals
  \o << "- Risk Tolerance: ", profile.riskTolerance,
        "Requirements:",
        "1. Respond in ", profile.language, ".",
        "2. Use simple, non-jargon language suitable for common Indian households.",
        "3. Do not use any emojis.",
        "4. Provide a health score (0-100).",
        "5. Suggest a budget plan (50/30/20 rule or similar).",
        "6. Calculate emergency fund (typically 6 months of expenses).",
        "7. Suggest SIP amounts based on goals and risk.",
        "8. Include fraud awareness tips relevant to India (e.g., UPI scams, fake investment apps).",
        "9. Warn about high debt if applicable." >>

\* The argument of ai.models.generateContent
AdviceRequest(profile) ==
  [ model |-> "gemini-3.1-pro-preview",
    contents |-> AdvicePrompt(profile),
    config |->
      [ responseMimeType |-> "application/json",
        responseSchema |-> FinancialAdviceSchema,
        systemInstruction |->
          << "You are FINORA, a trusted vernacular financial mentor for India. You provide clear, practical, and safe financial advice. You never use emojis. You focus on long-term discipline and fraud prevention." >> ] ]

\* JSON.stringify(profile): the ten fields in the order they were written
ProfileJSON(profile) ==
  << "{\"age\":", ToString(profile.age),
     ",\"monthlyIncome\":", ToString(profile.monthlyIncome),
     ",\"monthlyExpenses\":", ToString(profile.monthlyExpenses),
     ",\"currentSavings\":", ToString(profile.currentSavings),
     ",\"existingInvestments\":", ToString(profile.existingInvestments),
     ",\"debt\":", ToString(profile.debt),
     ",\"dependents\":", ToString(profile.dependents),
     ",\"financialGoals\":\"" >>
  \o profile.financialGoals
  \o << "\",\"riskTolerance\":\"", profile.riskTolerance,
        "\",\"language\":\"", profile.language, "\"}" >>

\* The systemInstruction template of chatWithFinora
ChatInstruction(profile) ==
  << "You are FINORA, a trusted financial mentor for India.",
     "The user's profile is: " >>
  \o ProfileJSON(profile)
  \o << ".",
        "Always respond in ", profile.language, ".",
        "Do not use emojis.",
        "Keep advice simple, practical, and culturally relevant to India.",
        "Focus on safety, long-term wealth, and avoiding scams.",
        "If the user asks for illegal advice or high-risk speculation, politely decline and explain why it is risky." >>

\* The arguments of ai.chats.create and of chat.sendMessage
ChatRequest(profile, message, history) ==
  [ model |-> "gemini-3.1-pro-preview",
    config |-> [ systemInstruction |-> ChatInstruction(profile) ],
    history |-> history,
    message |-> message ]

\* ------------------------------------------------- services/gemini
\* without the || "{}" default (claim C5's mutant)
getFinancialAdviceNoDefault(profile, resp) ==
  IF resp.kind = "throw" THEN [threw |-> TRUE, value |-> JNull]
  ELSE
    LET r == JSONParse(resp.text) IN
    IF r.ok THEN [threw |-> FALSE, value |-> r.v]
    ELSE [threw |-> TRUE, value |-> JNull]

\* a parse error swallowed into an empty object (claim C6's mutant)
getFinancialAdviceLenient(profile, resp) ==
  IF resp.kind = "throw" THEN [threw |-> TRUE, value |-> JNull]
  ELSE
    LET text == IF resp.hasText /\ resp.text # <<>>
                THEN resp.text
                ELSE << Tok("{"), Tok("}") >>
        r == JSONParse(text)
    IN
    [threw |-> FALSE, value |-> IF r.ok THEN r.v ELSE EmptyObject]

\* the health score clamped to 100 after the parse (claim C10's mutant)
getFinancialAdviceClamping(profile, resp) ==
  IF resp.kind = "throw" THEN [threw |-> TRUE, value |-> JNull]
  ELSE
    LET text == IF resp.hasText /\ resp.text # <<>>
                THEN resp.text
                ELSE << Tok("{"), Tok("}") >>
        r == JSONParse(text)
        clamped ==
          IF HasMember(r.v, "healthScore") /\ r.v.o["healthScore"].t = "num"
             /\ r.v.o["healthScore"].n > 100
          THEN JObj([r.v.o EXCEPT !["healthScore"] = JNum(100)])
          ELSE r.v
    IN
    IF r.ok THEN [threw |-> FALSE, value |-> clamped]
    ELSE [threw |-> TRUE, value |-> JNull]

\* getFinancialAdvice, given what generateContent comes back with:
\* threw = TRUE is a rejected promise, otherwise value is what it returns.
getFinancialAdvice(profile, resp) ==
  IF resp.kind = "throw" THEN [threw |-> TRUE, value |-> JNull]
  ELSE
    LET text == IF resp.hasText /\ resp.text # <<>>
                THEN resp.text
                ELSE << Tok("{"), Tok("}") >>
        r == JSONParse(text)
    IN
    IF r.ok THEN [threw |-> FALSE, value |-> r.v]
    ELSE [threw |-> TRUE, value |-> JNull]

\* chatWithFinora, given what sendMessage comes back with: it returns
\* result.text as it is (possibly undefined: hasText = FALSE).
chatWithFinora(profile, message, history, resp) ==
  IF resp.kind = "throw" THEN [threw |-> TRUE, hasText |-> FALSE, text |-> <<>>]
  ELSE [threw |-> FALSE, hasText |-> resp.hasText, text |-> resp.text]

\* ------------------------------------------------------------ App state
VARIABLES
  step,            \* 'welcome' | 'profile' | 'loading' | 'dashboard'
  language,        \* the language state
  profile,         \* the profile state
  advice,          \* the advice state (JNull is null)
  isChatOpen,
  chatMessages,    \* the transcript
  currentInput,
  isChatLoading,
  adviceCalls,     \* getFinancialAdvice calls awaiting the provider
  chatCalls,       \* chatWithFinora calls awaiting the provider
  adviceResponse,  \* what the advice call settled last came back with
                   \* (NoResponse again once a new call is awaited)
  chatResponse,    \* the same for the chat call
  uncaught,        \* "none", or where an exception escaped every handler
  lastEvent        \* "send" when handleSendMessage ran last, else "other"

vars ==
  << step, language, profile, advice, isChatOpen, chatMessages, currentInput,
     isChatLoading, adviceCalls, chatCalls, adviceResponse, chatResponse,
     uncaught, lastEvent >>

uiVars == << step, language, profile, advice, isChatOpen >>

chatVars == << chatMessages, currentInput, isChatLoading, chatCalls, chatResponse >>

\* The component is mounted until a render throws (no error boundary).
\* Once unmounted no handler runs, and the setters that a call still out
\* would use are without effect, so every action requires Mounted.
Mounted == uncaught # "render"

\* The dashboard block of the render: it reads advice.budgetPlan.necessities
\* and calls .map on the three lists.
DashboardShown(st, adv) == st = "dashboard" /\ JTruthy(adv)

RenderThrows(st, adv) ==
  /\ DashboardShown(st, adv)
  /\ \/ ~HasMember(adv, "budgetPlan")
     \/ \E k \in ListKeys : ~(HasMember(adv, k) /\ adv.o[k].t = "arr")

\* The chat panel (transcript, input, send button) is rendered.
ChatPanelShown == isChatOpen /\ step \in {"dashboard", "profile"}

\* What the panel shows below the transcript.
ChatPanelTail == IF isChatLoading THEN "thinking" ELSE "nothing"

\* The initial profile state.  No handler writes its language field: the
\* calls are given {...profile, language} instead.
InitialProfile ==
  [ age |-> 30,
    monthlyIncome |-> 50000,
    monthlyExpenses |-> 30000,
    currentSavings |-> 100000,
    existingInvestments |-> 50000,
    debt |-> 0,
    dependents |-> 2,
    financialGoals |-> << "Buy a house in 10 years, save for children education" >>,
    riskTolerance |-> "Medium",
    language |-> "English" ]

\* the profile state passed as it is (mutant used for C17)
CallProfileStale == profile

\* { ...profile, language }: the first argument of both service calls
CallProfile == [profile EXCEPT !.language = language]

\* the transcript with the new turn already in it (mutant used for C13)
HistoryArgumentWithNewTurn == Append(chatMessages, UserTurn(currentInput))

\* The third argument of chatWithFinora: chatMessages as the handler sees it
HistoryArgument == chatMessages

Init ==
  /\ step = "welcome"
  /\ language = "English"
  /\ profile = InitialProfile
  /\ advice = JNull
  /\ isChatOpen = FALSE
  /\ chatMessages = <<>>
  /\ currentInput = <<>>
  /\ isChatLoading = FALSE
  /\ adviceCalls = <<>>
  /\ chatCalls = <<>>
  /\ adviceResponse = NoResponse
  /\ chatResponse = NoResponse
  /\ uncaught = "none"
  /\ lastEvent = "other"

\* ------------------------------------------------------------ navigation
\* A language button of the welcome screen: setLanguage(lang); handleStart()
handleStart(lang) ==
  /\ Mounted /\ step = "welcome"
  /\ language' = lang
  /\ step' = "profile"
  /\ lastEvent' = "other"
  /\ UNCHANGED << profile, advice, isChatOpen, chatVars, adviceCalls,
                  adviceResponse, uncaught >>

\* The back button of the profile screen
Back ==
  /\ Mounted /\ step = "profile"
  /\ step' = "welcome"
  /\ lastEvent' = "other"
  /\ UNCHANGED << language, profile, advice, isChatOpen, chatVars, adviceCalls,
                  adviceResponse, uncaught >>

\* onChange of a field of the profile form: setProfile({...profile, f: v})
EditProfile(field, value) ==
  /\ Mounted /\ step = "profile"
  /\ profile[field] # value
  /\ profile' = [profile EXCEPT ![field] = value]
  /\ lastEvent' = "other"
  /\ UNCHANGED << step, language, advice, isChatOpen, chatVars, adviceCalls,
                  adviceResponse, uncaught >>

\* The profile button of the navigation bar
ToProfile ==
  /\ Mounted /\ step = "dashboard"
  /\ step' = "profile"
  /\ lastEvent' = "other"
  /\ UNCHANGED << language, profile, advice, isChatOpen, chatVars, adviceCalls,
                  adviceResponse, uncaught >>

\* The language select of the navigation bar
SelectLanguage(lang) ==
  /\ Mounted /\ step = "dashboard"
  /\ lang # language
  /\ language' = lang
  /\ lastEvent' = "other"
  /\ UNCHANGED << step, profile, advice, isChatOpen, chatVars, adviceCalls,
                  adviceResponse, uncaught >>

\* The chat toggle button
OpenChat ==
  /\ Mounted /\ step = "dashboard"
  /\ isChatOpen' = TRUE
  /\ lastEvent' = "other"
  /\ UNCHANGED << step, language, profile, advice, chatVars, adviceCalls,
                  adviceResponse, uncaught >>

\* The backdrop and the close button of the chat panel
CloseChat ==
  /\ Mounted /\ ChatPanelShown
  /\ isChatOpen' = FALSE
  /\ lastEvent' = "other"
  /\ UNCHANGED << step, language, profile, advice, chatVars, adviceCalls,
                  adviceResponse, uncaught >>

\* -------------------------------------------------------------- advice
\* seq without its i-th element
Without(seq, i) == SubSeq(seq, 1, i - 1) \o SubSeq(seq, i + 1, Len(seq))

\* onSubmit of the profile form, up to the await
handleSubmitProfile ==
  /\ Mounted /\ step = "profile"
  /\ step' = "loading"
  /\ adviceCalls' =
       Append(adviceCalls,
              [profile |-> CallProfile, request |-> AdviceRequest(CallProfile)])
  /\ adviceResponse' = NoResponse
  /\ lastEvent' = "other"
  /\ UNCHANGED << language, profile, advice, isChatOpen, chatVars,
                  uncaught >>

\* The rest of the try block of handleSubmitProfile: setAdvice(result);
\* setStep('dashboard'), and the render of the dashboard that follows.
handleSubmitProfileThen(result) ==
  /\ advice' = result
  /\ step' = "dashboard"
  /\ uncaught' = IF RenderThrows("dashboard", result) THEN "render" ELSE uncaught

\* catch block that drops the stored result (claim C4's mutant)
handleSubmitProfileCatchClearing ==
  /\ step' = "profile"
  /\ advice' = JNull
  /\ UNCHANGED uncaught

\* catch block that only logs (claim C3's mutant)
handleSubmitProfileCatchLogOnly ==
  UNCHANGED << step, advice, uncaught >>

\* catch block that shows the dashboard all the same (claim C15's mutant)
handleSubmitProfileCatchToDashboard ==
  /\ step' = "dashboard"
  /\ UNCHANGED << advice, uncaught >>

\* The catch block of handleSubmitProfile: console.error; setStep('profile')
handleSubmitProfileCatch ==
  /\ step' = "profile"
  /\ UNCHANGED << advice, uncaught >>

\* handleSubmitProfile from the await on: the i-th outstanding call comes
\* back with resp, then the rest of the try block or the catch block runs.
handleSubmitProfileSettled(i, resp) ==
  /\ Mounted /\ i \in 1..Len(adviceCalls)
  /\ adviceCalls' = Without(adviceCalls, i)
  /\ adviceResponse' = resp
  /\ LET result == getFinancialAdvice(adviceCalls[i].profile, resp) IN
     IF result.threw
     THEN handleSubmitProfileCatch
     ELSE handleSubmitProfileThen(result.value)
  /\ lastEvent' = "other"
  /\ UNCHANGED << language, profile, isChatOpen, chatVars >>

\* ---------------------------------------------------------------- chat
\* onChange of the chat input
TypeInput(text) ==
  /\ Mounted /\ ChatPanelShown
  /\ text # currentInput
  /\ currentInput' = text
  /\ lastEvent' = "other"
  /\ UNCHANGED << uiVars, chatMessages, isChatLoading, chatCalls, chatResponse,
                  adviceCalls, adviceResponse, uncaught >>

\* guard without the in-flight test (claim C8's mutant)
SendRefusedUnlessBlank == ~Truthy(Trim(currentInput))

\* guard that tests the raw input, not the trimmed one (claim C9's mutant)
SendRefusedUntrimmed == ~Truthy(currentInput) \/ isChatLoading

\* The early return of handleSendMessage
SendRefused == ~Truthy(Trim(currentInput)) \/ isChatLoading

\* Enter in the chat input or the send button: handleSendMessage up to the
\* await.  Sends that would outgrow MaxTurns are not explored.
handleSendMessage ==
  /\ Mounted /\ ChatPanelShown
  /\ lastEvent' = "send"
  /\ IF SendRefused
     THEN UNCHANGED chatVars
     ELSE /\ Len(chatMessages) + 2 <= MaxTurns
          /\ currentInput' = <<>>
          /\ chatMessages' = Append(chatMessages, UserTurn(currentInput))
          /\ isChatLoading' = TRUE
          /\ chatCalls' =
               Append(chatCalls,
                      [ profile |-> CallProfile,
                        message |-> currentInput,
                        history |-> HistoryArgument,
                        request |-> ChatRequest(CallProfile, currentInput,
                                                HistoryArgument) ])
          /\ chatResponse' = NoResponse
  /\ UNCHANGED << uiVars, adviceCalls, adviceResponse, uncaught >>

\* try block that builds the new transcript from the array the handler
\* closed over, not from the updater's prev (claim C14's mutant)
handleSendMessageThenStale(response) ==
  chatMessages' =
    Append(SubSeq(chatMessages, 1, Len(chatMessages) - 1),
           ModelTurn(IF response.hasText /\ Truthy(response.text)
                     THEN response.text ELSE FallbackText))

\* try block without the || fallback (claim C20's mutant)
handleSendMessageThenNoFallback(response) ==
  chatMessages' = Append(chatMessages, ModelTurn(response.text))

\* The rest of the try block of handleSendMessage: the model turn, with the
\* fixed sentence when the response is undefined or empty.
handleSendMessageThen(response) ==
  chatMessages' =
    Append(chatMessages,
           ModelTurn(IF response.hasText /\ Truthy(response.text)
                     THEN response.text ELSE FallbackText))

\* catch block that takes the user's turn back (claim C1's mutant)
handleSendMessageCatchRollback ==
  chatMessages' = SubSeq(chatMessages, 1, Len(chatMessages) - 1)

\* catch block that appends the fixed sentence (claim C2's mutant)
handleSendMessageCatchPlaceholder ==
  chatMessages' = Append(chatMessages, ModelTurn(FallbackText))

\* The catch block of handleSendMessage: console.error only
handleSendMessageCatch ==
  UNCHANGED chatMessages

\* handleSendMessage from the await on: the i-th outstanding call comes back
\* with resp; then the rest of the try block or the catch block, then finally.
handleSendMessageSettled(i, resp) ==
  /\ Mounted /\ i \in 1..Len(chatCalls)
  /\ chatCalls' = Without(chatCalls, i)
  /\ chatResponse' = resp
  /\ LET call == chatCalls[i]
         response ==
           chatWithFinora(call.profile, call.message, call.history, resp)
     IN
     IF response.threw
     THEN handleSendMessageCatch
     ELSE handleSendMessageThen(response)
  /\ isChatLoading' = FALSE
  /\ lastEvent' = "other"
  /\ UNCHANGED << uiVars, currentInput, adviceCalls, adviceResponse, uncaught >>

\* ------------------------------------------------------- specification
Next ==
  \/ \E lang \in Languages : handleStart(lang)
  \/ Back
  \/ \E a \in Ages : EditProfile("age", a)
  \/ handleSubmitProfile
  \/ \E i \in 1..Len(adviceCalls), resp \in AdviceResponses :
       handleSubmitProfileSettled(i, resp)
  \/ ToProfile
  \/ \E lang \in Languages : SelectLanguage(lang)
  \/ OpenChat
  \/ CloseChat
  \/ \E text \in InputTexts : TypeInput(text)
  \/ handleSendMessage
  \/ \E i \in 1..Len(chatCalls), resp \in ChatResponses :
       handleSendMessageSettled(i, resp)

Spec == Init /\ [][Next]_vars

\* The profile form and the advice request on their own, with every member
\* of the Language enum and with the goals and risk fields edited as well.
AllLanguages ==
  { "English", "Hindi", "Tamil", "Telugu", "Kannada", "Malayalam", "Marathi",
    "Bengali" }

NextForm ==
  \/ \E lang \in AllLanguages : handleStart(lang)
  \/ Back
  \/ \E a \in Ages : EditProfile("age", a)
  \/ \E r \in RiskTolerances : EditProfile("riskTolerance", r)
  \/ \E g \in GoalTexts : EditProfile("financialGoals", g)
  \/ handleSubmitProfile
  \/ \E i \in 1..Len(adviceCalls), resp \in AdviceResponses :
       handleSubmitProfileSettled(i, resp)
  \/ ToProfile

SpecForm == Init /\ [][NextForm]_vars

\* The whole application under the assumption that the provider answers:
\* a chat call that can come back does come back.
SpecLive ==
  Spec /\ WF_vars(\E i \in 1..Len(chatCalls), resp \in ChatResponses :
                    handleSendMessageSettled(i, resp))

\* ------------------------------------------------------------- properties
\* Steps that issue a provider call, and steps in which one comes back.
ChatIssued == Len(chatCalls') > Len(chatCalls)

ChatSettled(i) == i \in 1..Len(chatCalls) /\ chatCalls' = Without(chatCalls, i)

AdviceSettled(i) ==
  i \in 1..Len(adviceCalls) /\ adviceCalls' = Without(adviceCalls, i)

LastTurn(msgs) == msgs[Len(msgs)]

\* C1: an accepted send appends the user turn at once, so that while the
\* call is out the transcript has N+1 turns (N the length before the send);
\* when the call comes back with a response the transcript has exactly N+2
\* turns, the user turn followed by one model turn, and when it comes back
\* with an exception the transcript has exactly N+1 turns.
C1_TranscriptLength ==
  [][ /\ ChatIssued =>
           chatMessages' = Append(chatMessages, UserTurn(currentInput))
      /\ \A i \in 1..Len(chatCalls) :
           LET N == Len(chatCalls[i].history) IN
           /\ Len(chatMessages) = N + 1
           /\ ChatSettled(i) =>
                IF chatResponse'.kind = "ok"
                THEN /\ Len(chatMessages') = N + 2
                     /\ chatMessages'[N + 1] = UserTurn(chatCalls[i].message)
                     /\ chatMessages'[N + 2].role = "model"
                ELSE /\ Len(chatMessages') = N + 1
                     /\ chatMessages'[N + 1] = UserTurn(chatCalls[i].message)
    ]_vars

\* C1 witness: a call sent on a transcript of one turn has come back with a
\* response (that one turn being a message whose call had failed).
C1_Witness ==
  /\ chatCalls = <<>> /\ chatResponse.kind = "ok"
  /\ Len(chatMessages) = 3
  /\ chatMessages[1].role = "user" /\ chatMessages[2].role = "user"

\* C2 as stated: when a chat call fails, a placeholder turn or an error
\* indicator stands where the model response would be, and the user's turn
\* stays recorded.
C2_FailureShowsPlaceholder ==
  [][ \A i \in 1..Len(chatCalls) :
        (ChatSettled(i) /\ chatResponse'.kind = "throw") =>
          /\ \E j \in 1..Len(chatMessages') :
               chatMessages'[j] = UserTurn(chatCalls[i].message)
          /\ \/ LastTurn(chatMessages').role = "model"
             \/ ChatPanelTail' # "nothing"
    ]_vars

\* C2 amended: when a chat call fails the transcript is left as it was, the
\* user's turn being its last turn, and nothing is shown in place of the
\* model response: no turn is appended and the panel shows nothing below
\* the transcript.
C2_FailureLeavesUserTurnLast ==
  [][ \A i \in 1..Len(chatCalls) :
        (ChatSettled(i) /\ chatResponse'.kind = "throw") =>
          /\ chatMessages' = chatMessages
          /\ LastTurn(chatMessages') = UserTurn(chatCalls[i].message)
          /\ ChatPanelTail' = "nothing"
    ]_vars

\* C2 witness: the last chat call failed and its user turn ends the transcript.
C2_Witness ==
  /\ chatCalls = <<>> /\ chatResponse = Thrown
  /\ chatMessages # <<>> /\ LastTurn(chatMessages).role = "user"

\* C3: when the advice call comes back with an exception while the step is
\* 'loading', the step is set back to 'profile' (never to 'dashboard') and
\* no exception escapes the handler.
C3_AdviceFailureReverts ==
  [][ \A i \in 1..Len(adviceCalls) :
        (AdviceSettled(i) /\ adviceResponse' = Thrown /\ step = "loading") =>
          /\ step' = "profile"
          /\ uncaught' = uncaught
    ]_vars

\* C3 witness: an advice call has failed and the profile form is back.
C3_Witness ==
  adviceCalls = <<>> /\ adviceResponse = Thrown /\ step = "profile"

\* C4: from the submission of an advice request until the provider's
\* exception has been handled, the advice state keeps the value it had
\* before the submission, null or an earlier result.
C4_AdviceKeptOnFailure ==
  [][ ( \/ Len(adviceCalls') >= Len(adviceCalls) /\ adviceCalls' # <<>>
        \/ \E i \in 1..Len(adviceCalls) :
             AdviceSettled(i) /\ adviceResponse' = Thrown )
      => advice' = advice
    ]_vars

\* C4 witness: an advice call has failed while an earlier result was stored.
C4_Witness ==
  /\ adviceCalls = <<>> /\ adviceResponse = Thrown
  /\ advice \in ConformantAdvice

\* C5: when the response text of an advice call is empty or absent, the call
\* returns an object with none of the schema's keys, and nothing is thrown:
\* the result is stored and the step becomes 'dashboard'.
C5_EmptyTextGivesEmptyObject ==
  [][ \A i \in 1..Len(adviceCalls) :
        (AdviceSettled(i) /\ adviceResponse' \in {NoText, WithText(<<>>)}) =>
          /\ advice'.t = "obj"
          /\ DOMAIN advice'.o \cap AdviceKeys = {}
          /\ step' = "dashboard"
          /\ uncaught' # "handler"
    ]_vars

\* C5 witness: an empty response text has been turned into the empty object.
C5_Witness ==
  adviceResponse = WithText(<<>>) /\ advice = EmptyObject

\* A response whose text is there, not empty, and not JSON.
Unparsable(resp) ==
  resp.kind = "ok" /\ resp.hasText /\ resp.text # <<>> /\ ~JSONParse(resp.text).ok

C7_DashboardNeverThrows ==
  /\ uncaught # "render"
  /\ ~RenderThrows(step, advice)

C9_RefusedSendChangesNothing ==
  [][ (lastEvent' = "send" /\ (isChatLoading \/ Trim(currentInput) = <<>>)) =>
        UNCHANGED << chatMessages, currentInput, isChatLoading, chatCalls >>
    ]_vars

\* C9 witness: the send was pressed last, with text typed, while a call is out.
C9_Witness ==
  /\ lastEvent = "send" /\ isChatLoading /\ Len(chatCalls) = 1
  /\ Trim(currentInput) # <<>>

\* C10: when the response text is the serialization of an object that
\* conforms to the schema, the advice state becomes that very object.
C10_ConformantResultStoredAsIs ==
  [][ \A i \in 1..Len(adviceCalls), v \in ConformantAdvice :
        (AdviceSettled(i) /\ adviceResponse' = WithText(JSONStringify(v))) =>
          /\ SchemaConformant(v)
          /\ advice' = v
    ]_vars

\* C10 witness: the result with a health score of 120 is stored unchanged.
C10_Witness ==
  /\ adviceResponse = WithText(JSONStringify(OddAdvice))
  /\ advice = OddAdvice /\ advice.o["healthScore"] = JNum(120)
  /\ step = "dashboard"

Range(seq) == { seq[j] : j \in 1..Len(seq) }

\* C11: the response schema attached to every advice request declares
\* exactly the eleven top-level keys, all of them required, and its
\* budgetPlan declares exactly necessities, wants and savings, all required.
C11_SchemaKeysAllRequired ==
  \A i \in 1..Len(adviceCalls) :
    LET schema == adviceCalls[i].request.config.responseSchema
        budget == schema.properties["budgetPlan"]
    IN
    /\ DOMAIN schema.properties =
         { "healthScore", "recommendedMonthlySavings", "suggestedSIPAmount",
           "emergencyFundTarget", "budgetPlan", "investmentSuggestions",
           "retirementReadiness", "riskWarnings", "fraudAwarenessTips",
           "keyAdvice", "nextBestAction" }
    /\ Cardinality(DOMAIN schema.properties) = Len(schema.required)
    /\ Range(schema.required) = DOMAIN schema.properties
    /\ DOMAIN budget.properties = { "necessities", "wants", "savings" }
    /\ Range(budget.required) = DOMAIN budget.properties

\* C11 witness: an advice request is out, with a schema attached to it.
C11_Witness ==
  /\ Len(adviceCalls) = 1 /\ step = "loading"
  /\ adviceCalls[1].request.config.responseMimeType = "application/json"
  /\ Len(adviceCalls[1].request.config.responseSchema.required) > 0

\* C12 as stated: the prompt of an advice request for a profile whose
\* language is Hindi contains the word Hindi and no decorative symbol.
C12_HindiPromptHasNoSymbols ==
  \A i \in 1..Len(adviceCalls) :
    adviceCalls[i].profile.language = "Hindi" =>
      /\ Contains(adviceCalls[i].request.contents, "Hindi")
      /\ \A j \in 1..Len(adviceCalls[i].request.contents) :
           ~IsDecorative(adviceCalls[i].request.contents[j])

IsPrefix(s, t) == Len(s) <= Len(t) /\ SubSeq(t, 1, Len(s)) = s

\* C14: the transcript is append-only: in every step the previous
\* transcript is a prefix of the next one.
C14_TranscriptAppendOnly ==
  [][ IsPrefix(chatMessages, chatMessages') ]_vars

\* C14 witness: a reply has been appended, and afterwards the profile was
\* resubmitted in another language with the transcript still there.
C14_Witness ==
  /\ Len(chatMessages) = 2 /\ LastTurn(chatMessages).role = "model"
  /\ step = "loading" /\ language = "Hindi"

\* An advice response that makes getFinancialAdvice throw.
AdviceFailure(resp) == resp = Thrown \/ Unparsable(resp)

C16_DashboardHasAdvice ==
  [][ /\ step' = "dashboard" => advice' # JNull
      /\ \A i \in 1..Len(adviceCalls) :
           AdviceSettled(i) =>
             IF AdviceFailure(adviceResponse')
             THEN step' # "dashboard" /\ advice' = advice
             ELSE /\ step' = "dashboard"
                  /\ advice' =
                       getFinancialAdvice(adviceCalls[i].profile,
                                          adviceResponse').value
      /\ (Len(adviceCalls') >= Len(adviceCalls)) => advice' = advice
    ]_vars

\* The language names a request text mentions.
LanguagesIn(text) == Range(text) \cap AllLanguages

\* C17: the language sent in an advice request and in a chat request is the
\* language selected in the UI when the call is issued, whatever the
\* language field of the profile record holds.
C17_SelectedLanguageIsSent ==
  [][ /\ Len(adviceCalls') > Len(adviceCalls) =>
           LET call == adviceCalls'[Len(adviceCalls')] IN
           /\ call.profile.language = language
           /\ LanguagesIn(call.request.contents) = { language }
      /\ ChatIssued =>
           LET call == chatCalls'[Len(chatCalls')] IN
           /\ call.profile.language = language
           /\ LanguagesIn(call.request.config.systemInstruction) = { language }
    ]_vars

\* C17 witness: a chat call asking for Hindi is out while the profile record
\* says English.
C17_Witness ==
  /\ Len(chatCalls) = 1 /\ chatCalls[1].profile.language = "Hindi"
  /\ Contains(chatCalls[1].request.config.systemInstruction, "Hindi")
  /\ profile.language = "English" /\ language = "Hindi"

\* C18: the loading flag is true exactly while a chat call is out, and,
\* the provider answering, every accepted send is followed by a state in
\* which a send is accepted again.
C18_LoadingFlagIsCleared ==
  /\ [](isChatLoading <=> chatCalls # <<>>)
  /\ isChatLoading ~> (~isChatLoading /\ Mounted)

\* The number of turns of a role
CountRole(msgs, role) == Cardinality({ j \in 1..Len(msgs) : msgs[j].role = role })

\* C19: a transcript that is not empty starts with a user turn, has no two
\* model turns in a row, and has at most as many model turns as user turns.
C19_TranscriptRoles ==
  /\ chatMessages # <<>> => chatMessages[1].role = "user"
  /\ \A j \in 1..(Len(chatMessages) - 1) :
       ~(chatMessages[j].role = "model" /\ chatMessages[j + 1].role = "model")
  /\ CountRole(chatMessages, "model") <= CountRole(chatMessages, "user")

\* C19 witness: a message whose call failed, then a message and its reply.
C19_Witness ==
  /\ Len(chatMessages) = 3 /\ isChatLoading = FALSE
  /\ chatMessages[2].role = "user" /\ chatMessages[3].role = "model"
  /\ chatMessages[3].parts[1].text = <<"o", "k">>

\* C20: when a chat call succeeds with empty or absent text, the model turn
\* appended carries the fixed fallback sentence; no model turn of the
\* transcript has empty text.
C20_EmptyReplyGivesFallback ==
  [][ /\ \A i \in 1..Len(chatCalls) :
           (ChatSettled(i) /\ chatResponse' \in {NoText, WithText(<<>>)}) =>
             chatMessages' = Append(chatMessages, ModelTurn(FallbackText))
      /\ \A j \in 1..Len(chatMessages') :
           chatMessages'[j].role = "model" =>
             chatMessages'[j].parts[1].text # <<>>
    ]_vars

\* C20 witness: a call came back with empty text and the fallback sentence
\* ends the transcript.
C20_Witness ==
  /\ chatResponse = WithText(<<>>) /\ chatCalls = <<>>
  /\ LastTurn(chatMessages) = ModelTurn(FallbackText)

====
